---------------------------- MODULE Spec2Model ----------------------------
(***************************************************************************)
(* A model of the wixe widget core (src/src/main.rs): the value types, the *)
(* text widgets, the Container and its four traversals, the Renderer       *)
(* contract and the frame driver of run_app.                               *)
(*                                                                         *)
(* Every f32 of the program is a fixed-point number with one decimal       *)
(* digit, stored as the integer 10*x: the font size 14.0 is 140, the       *)
(* position 20.0 is 200, and x * 1.2 is (x * 12) \div 10.  The font sizes  *)
(* of the model are multiples of 0.5, so every product is exact.  f32      *)
(* rounding is not modelled.                                               *)
(*                                                                         *)
(* A traversal is an operator that returns the widget as the call leaves   *)
(* it (the methods take &mut self), the value the call returns, and the    *)
(* trace of the calls it made, each with the path of the node called (the  *)
(* child indices from the root).                                           *)
(***************************************************************************)
EXTENDS Integers, Sequences, FiniteSets, TLC

VARIABLES
    root,         \* the widget tree the caller owns
    last,         \* the last call made on the tree and what it returned
    status,       \* "running" | "panicked" (library); control flow of run_app
    rlog,         \* run_app: the calls the renderer has received, in order
    now,          \* run_app: the clock, Instant::now(), in ms
    last_frame    \* run_app: last_frame

vars == <<root, last, status, rlog, now, last_frame>>

-----------------------------------------------------------------------------
(* Bounds *)

\* The most children the caller adds to the root container.
MaxChildren == 3

\* run_app's clock stops here.
MaxTime == 48

-----------------------------------------------------------------------------
(* Core types *)

TextAlignment == {"Left", "Center", "Right", "Justify"}

ColorDefault == [r |-> 0, g |-> 0, b |-> 0, a |-> 255]

Red == [r |-> 255, g |-> 0, b |-> 0, a |-> 255]

Point(px, py) == [x |-> px, y |-> py]

Size(w, h) == [width |-> w, height |-> h]

LayoutConstraintDefault ==
    [min_width |-> 0, max_width |-> 0, min_height |-> 0, max_height |-> 0]

\* The constraints a caller passes: the derived default and a window's.
Constraints ==
    { LayoutConstraintDefault,
      [min_width |-> 0, max_width |-> 8000, min_height |-> 0, max_height |-> 6000] }

KeyCode == {"Space", "Enter", "Backspace", "Char"}

EventKinds == {"Click", "Hover", "KeyPress", "FocusChange", "MouseWheel"}

CustomEvent(kind, point, key, focused, delta) ==
    [kind |-> kind, point |-> point, key |-> key, focused |-> focused, delta |-> delta]

\* The events a caller delivers: one of every variant.
Events ==
    { CustomEvent("Click", Point(250, 300), "none", FALSE, 0),
      CustomEvent("Hover", Point(250, 300), "none", FALSE, 0),
      CustomEvent("KeyPress", Point(0, 0), "Enter", FALSE, 0),
      CustomEvent("FocusChange", Point(0, 0), "none", TRUE, 0),
      CustomEvent("MouseWheel", Point(0, 0), "none", FALSE, 15) }

UpdateContext == [ctx |-> "UpdateContext"]

Max(a, b) == IF a >= b THEN a ELSE b

\* One call of a traversal: the method, the node it was made on (its path and
\* kind), its argument and what it returned.
Call(op, path, kind, arg, ret) ==
    [op |-> op, path |-> path, kind |-> kind, arg |-> arg, ret |-> ret]

-----------------------------------------------------------------------------
(* Renderer contract.  What a draw call does to the screen is outside the  *)
(* core; the model keeps the calls received and lets one call of a frame   *)
(* fail, as the `?` in GliumRenderer's methods can.                        *)

NoError == [kind |-> "none", at |-> 0]

RenderError(kind, at) == [kind |-> kind, at |-> at]

Ok == [ok |-> TRUE, err |-> NoError]

Err(e) == [ok |-> FALSE, err |-> e]

\* The call of a frame that fails: none, begin_frame, end_frame or the n-th draw_text.
NoFault == [call |-> "none", n |-> 0, err |-> NoError]

DrawFault(n) == [call |-> "draw_text", n |-> n, err |-> RenderError("GraphicsError", n)]

BeginFault == [call |-> "begin_frame", n |-> 0, err |-> RenderError("GraphicsError", 0)]

EndFault == [call |-> "end_frame", n |-> 0, err |-> RenderError("WindowError", 0)]

\* A renderer that has received nothing yet and will fail at `fault`.
NewRenderer(fault) == [log |-> <<>>, draws |-> 0, fault |-> fault]

begin_frame(renderer) ==
    LET failed == renderer.fault.call = "begin_frame"
    IN  [renderer |-> [renderer EXCEPT !.draws = 0,
                           !.log = Append(@, [call |-> "begin_frame", ok |-> ~failed])],
         ret |-> IF failed THEN Err(renderer.fault.err) ELSE Ok]

end_frame(renderer) ==
    LET failed == renderer.fault.call = "end_frame"
    IN  [renderer |-> [renderer EXCEPT
                           !.log = Append(@, [call |-> "end_frame", ok |-> ~failed])],
         ret |-> IF failed THEN Err(renderer.fault.err) ELSE Ok]

draw_text(renderer, text, position, font_size, color, alignment) ==
    LET n == renderer.draws + 1
        failed == renderer.fault.call = "draw_text" /\ renderer.fault.n = n
    IN  [renderer |-> [renderer EXCEPT !.draws = n,
                           !.log = Append(@, [call |-> "draw_text", text |-> text,
                                              position |-> position,
                                              font_size |-> font_size, color |-> color,
                                              alignment |-> alignment, ok |-> ~failed])],
         ret |-> IF failed THEN Err(renderer.fault.err) ELSE Ok]

-----------------------------------------------------------------------------
(* Text widget *)

TextWidgetNew(text) ==
    [kind |-> "TextWidget", text |-> text, font_size |-> 140,
     alignment |-> "Left", color |-> ColorDefault]

with_alignment(self, alignment) == [self EXCEPT !.alignment = alignment]

with_color(self, color) == [self EXCEPT !.color = color]

with_font_size(self, size) == [self EXCEPT !.font_size = size]

\* Mutant: a text widget that claims the click.
TextWidgetHandleEventClaimsClick(self, event) ==
    [widget |-> self, ret |-> event.kind = "Click", trace |-> <<>>]

TextWidgetHandleEvent(self, event) ==
    [widget |-> self, ret |-> FALSE, trace |-> <<>>]

TextWidgetUpdate(self, ctx) ==
    [widget |-> self, ret |-> FALSE, trace |-> <<>>]

\* Mutant: a layout that clamps the stored font size to the constraints.
TextWidgetLayoutClamps(self, constraints) ==
    LET size == IF self.font_size > constraints.max_width
                THEN constraints.max_width
                ELSE self.font_size
    IN  [widget |-> [self EXCEPT !.font_size = size],
         ret |-> Size(size * 10, (size * 12) \div 10),
         trace |-> <<>>]

TextWidgetLayout(self, constraints) ==
    [widget |-> self,
     ret |-> Size(self.font_size * 10, (self.font_size * 12) \div 10),
     trace |-> <<>>]

TextWidgetRender(self, renderer, position) ==
    LET d == draw_text(renderer, self.text, position, self.font_size, self.color,
                       self.alignment)
    IN  [widget |-> self, ret |-> d.ret, renderer |-> d.renderer, trace |-> <<>>]

-----------------------------------------------------------------------------
(* Heading, Subheading, Paragraph: a TextWidget `base` with presets.  A    *)
(* constructor returns the value, or panics and returns none.              *)

NoWidget == [kind |-> "none"]

Levels == 0 .. 255

\* Mutant: the sizes of the levels 5 and 6 exchanged.
HeadingFontSizeExchanged(level) ==
    CASE level = 1 -> 360
      [] level = 2 -> 300
      [] level = 3 -> 240
      [] level = 4 -> 180
      [] level = 5 -> 140
      [] level = 6 -> 160

HeadingFontSize(level) ==
    CASE level = 1 -> 360
      [] level = 2 -> 300
      [] level = 3 -> 240
      [] level = 4 -> 180
      [] level = 5 -> 160
      [] level = 6 -> 140

HeadingNew(text, level) ==
    IF ~(level >= 1 /\ level <= 6)
    THEN [panicked |-> TRUE, value |-> NoWidget]
    ELSE [panicked |-> FALSE,
          value |-> [kind |-> "Heading",
                     base |-> [TextWidgetNew(text) EXCEPT
                                   !.font_size = HeadingFontSize(level)],
                     level |-> level]]

SubheadingNew(text) ==
    [kind |-> "Subheading",
     base |-> [TextWidgetNew(text) EXCEPT !.font_size = 160, !.alignment = "Left"]]

ParagraphNew(text) ==
    [kind |-> "Paragraph",
     base |-> [TextWidgetNew(text) EXCEPT !.alignment = "Justify"]]

\* The three delegate every method to base.
BaseHandleEvent(self, event) ==
    LET r == TextWidgetHandleEvent(self.base, event)
    IN  [widget |-> [self EXCEPT !.base = r.widget], ret |-> r.ret, trace |-> r.trace]

BaseUpdate(self, ctx) ==
    LET r == TextWidgetUpdate(self.base, ctx)
    IN  [widget |-> [self EXCEPT !.base = r.widget], ret |-> r.ret, trace |-> r.trace]

BaseLayout(self, constraints) ==
    LET r == TextWidgetLayout(self.base, constraints)
    IN  [widget |-> [self EXCEPT !.base = r.widget], ret |-> r.ret, trace |-> r.trace]

BaseRender(self, renderer, position) ==
    LET r == TextWidgetRender(self.base, renderer, position)
    IN  [widget |-> [self EXCEPT !.base = r.widget], ret |-> r.ret,
         renderer |-> r.renderer, trace |-> r.trace]

-----------------------------------------------------------------------------
(* Button.  Its code is not in src/; this is the spec's Button (3, 4.2,    *)
(* 8): a label, an optional click callback, and the flags hovered and      *)
(* pressed.  A callback's run is a "callback" call of the trace.  The spec *)
(* gives Button no update behaviour and no render.                         *)

ButtonNew(label, has_callback) ==
    [kind |-> "Button", label |-> label, on_click |-> has_callback,
     hovered |-> FALSE, pressed |-> FALSE]

\* Mutant: a click that is consumed without running the callback.
ButtonHandleEventDropsCallback(self, event, path) ==
    CASE event.kind = "Click" ->
            [widget |-> self, ret |-> TRUE, trace |-> <<>>]
      [] event.kind = "Hover" ->
            [widget |-> [self EXCEPT !.hovered = TRUE], ret |-> TRUE, trace |-> <<>>]
      [] OTHER ->
            [widget |-> self, ret |-> FALSE, trace |-> <<>>]

ButtonHandleEvent(self, event, path) ==
    CASE event.kind = "Click" ->
            [widget |-> self, ret |-> TRUE,
             trace |-> IF self.on_click
                       THEN <<Call("callback", path, "Button", event, TRUE)>>
                       ELSE <<>>]
      [] event.kind = "Hover" ->
            [widget |-> [self EXCEPT !.hovered = TRUE], ret |-> TRUE, trace |-> <<>>]
      [] OTHER ->
            [widget |-> self, ret |-> FALSE, trace |-> <<>>]

ButtonUpdate(self, ctx) ==
    [widget |-> self, ret |-> FALSE, trace |-> <<>>]

ButtonLayout(self, constraints) ==
    [widget |-> self, ret |-> Size(1000, 300), trace |-> <<>>]

-----------------------------------------------------------------------------
(* A widget the caller implements (trait Widget is open: add_child takes   *)
(* any impl Widget).  The model fixes what its methods return.             *)

CustomNew(consumes, dirty, size) ==
    [kind |-> "Custom", consumes |-> consumes, dirty |-> dirty, size |-> size]

CustomHandleEvent(self, event) ==
    [widget |-> self, ret |-> self.consumes, trace |-> <<>>]

CustomUpdate(self, ctx) ==
    [widget |-> self, ret |-> self.dirty, trace |-> <<>>]

CustomLayout(self, constraints) ==
    [widget |-> self, ret |-> self.size, trace |-> <<>>]

-----------------------------------------------------------------------------
(* Container widget, and the dynamic dispatch of the four Widget methods.  *)
(* Each dispatcher puts the call itself at the head of the trace.  A loop  *)
(* `for child in self.children.iter_mut()` is the recursion ...From(i) on  *)
(* the index of the child it is at.                                        *)

ContainerNew == [kind |-> "Container", children |-> <<>>]

add_child(self, child) == [self EXCEPT !.children = Append(@, child)]

RECURSIVE HandleEvent(_, _, _), Update(_, _, _), Layout(_, _, _), Render(_, _, _, _)

\* Mutant: a dispatch that goes on after a child consumed the event.
RECURSIVE ContainerHandleEventFromNoStop(_, _, _, _)
ContainerHandleEventFromNoStop(children, i, event, path) ==
    IF i > Len(children)
    THEN [children |-> children, ret |-> FALSE, trace |-> <<>>]
    ELSE LET r == HandleEvent(children[i], event, Append(path, i))
             cs == [children EXCEPT ![i] = r.widget]
             rest == ContainerHandleEventFromNoStop(cs, i + 1, event, path)
         IN  [children |-> rest.children, ret |-> r.ret \/ rest.ret,
              trace |-> r.trace \o rest.trace]

RECURSIVE ContainerHandleEventFrom(_, _, _, _)
ContainerHandleEventFrom(children, i, event, path) ==
    IF i > Len(children)
    THEN [children |-> children, ret |-> FALSE, trace |-> <<>>]
    ELSE LET r == HandleEvent(children[i], event, Append(path, i))
             cs == [children EXCEPT ![i] = r.widget]
         IN  IF r.ret
             THEN [children |-> cs, ret |-> TRUE, trace |-> r.trace]
             ELSE LET rest == ContainerHandleEventFrom(cs, i + 1, event, path)
                  IN  [children |-> rest.children, ret |-> rest.ret,
                       trace |-> r.trace \o rest.trace]

ContainerHandleEvent(self, event, path) ==
    LET r == ContainerHandleEventFrom(self.children, 1, event, path)
    IN  [widget |-> [self EXCEPT !.children = r.children], ret |-> r.ret,
         trace |-> r.trace]

\* Mutant: an update that stops at the first child that returns true.
RECURSIVE ContainerUpdateFromStops(_, _, _, _, _)
ContainerUpdateFromStops(children, i, updated, ctx, path) ==
    IF i > Len(children)
    THEN [children |-> children, ret |-> updated, trace |-> <<>>]
    ELSE LET r == Update(children[i], ctx, Append(path, i))
             cs == [children EXCEPT ![i] = r.widget]
         IN  IF r.ret
             THEN [children |-> cs, ret |-> TRUE, trace |-> r.trace]
             ELSE LET rest == ContainerUpdateFromStops(cs, i + 1, updated, ctx, path)
                  IN  [children |-> rest.children, ret |-> rest.ret,
                       trace |-> r.trace \o rest.trace]

RECURSIVE ContainerUpdateFrom(_, _, _, _, _)
ContainerUpdateFrom(children, i, updated, ctx, path) ==
    IF i > Len(children)
    THEN [children |-> children, ret |-> updated, trace |-> <<>>]
    ELSE LET r == Update(children[i], ctx, Append(path, i))
             cs == [children EXCEPT ![i] = r.widget]
             rest == ContainerUpdateFrom(cs, i + 1, IF r.ret THEN TRUE ELSE updated,
                                         ctx, path)
         IN  [children |-> rest.children, ret |-> rest.ret,
              trace |-> r.trace \o rest.trace]

ContainerUpdate(self, ctx, path) ==
    LET r == ContainerUpdateFrom(self.children, 1, FALSE, ctx, path)
    IN  [widget |-> [self EXCEPT !.children = r.children], ret |-> r.ret,
         trace |-> r.trace]

\* Mutant: a layout that keeps the width of the last child, not the widest.
RECURSIVE ContainerLayoutFromLastWidth(_, _, _, _, _, _)
ContainerLayoutFromLastWidth(children, i, total_height, max_width, constraints, path) ==
    IF i > Len(children)
    THEN [children |-> children, ret |-> Size(max_width, total_height), trace |-> <<>>]
    ELSE LET r == Layout(children[i], constraints, Append(path, i))
             cs == [children EXCEPT ![i] = r.widget]
             rest == ContainerLayoutFromLastWidth(cs, i + 1, total_height + r.ret.height,
                                                  r.ret.width, constraints, path)
         IN  [children |-> rest.children, ret |-> rest.ret,
              trace |-> r.trace \o rest.trace]

RECURSIVE ContainerLayoutFrom(_, _, _, _, _, _)
ContainerLayoutFrom(children, i, total_height, max_width, constraints, path) ==
    IF i > Len(children)
    THEN [children |-> children, ret |-> Size(max_width, total_height), trace |-> <<>>]
    ELSE LET r == Layout(children[i], constraints, Append(path, i))
             cs == [children EXCEPT ![i] = r.widget]
             rest == ContainerLayoutFrom(cs, i + 1, total_height + r.ret.height,
                                         Max(max_width, r.ret.width), constraints, path)
         IN  [children |-> rest.children, ret |-> rest.ret,
              trace |-> r.trace \o rest.trace]

ContainerLayout(self, constraints, path) ==
    LET r == ContainerLayoutFrom(self.children, 1, 0, 0, constraints, path)
    IN  [widget |-> [self EXCEPT !.children = r.children], ret |-> r.ret,
         trace |-> r.trace]

\* The render loop, one operator per point of the loop body, each taking what
\* the calls before it returned: the loop head, the `?` after child.render,
\* the advance of current_pos after child.layout, and the rest of the loop.
ContainerRenderJoin(r, l, rest) ==
    [children |-> rest.children, ret |-> rest.ret, renderer |-> rest.renderer,
     trace |-> r.trace \o l.trace \o rest.trace]

RECURSIVE ContainerRenderFrom(_, _, _, _, _)
\* Mutant: a cursor that advances by the child's width.
ContainerRenderAdvanceByWidth(children, i, current_pos, path, r, l) ==
    ContainerRenderJoin(r, l,
        ContainerRenderFrom([children EXCEPT ![i] = l.widget], i + 1, r.renderer,
                            [current_pos EXCEPT !.y = @ + l.ret.width], path))

ContainerRenderAdvance(children, i, current_pos, path, r, l) ==
    ContainerRenderJoin(r, l,
        ContainerRenderFrom([children EXCEPT ![i] = l.widget], i + 1, r.renderer,
                            [current_pos EXCEPT !.y = @ + l.ret.height], path))

\* Mutant: a render loop that drops the child's error and goes on.
ContainerRenderChildDropsError(children, i, current_pos, path, r) ==
    ContainerRenderAdvance(children, i, current_pos, path, r,
        Layout(r.widget, LayoutConstraintDefault, Append(path, i)))

ContainerRenderChild(children, i, current_pos, path, r) ==
    IF ~r.ret.ok
    THEN [children |-> [children EXCEPT ![i] = r.widget], ret |-> r.ret,
          renderer |-> r.renderer, trace |-> r.trace]
    ELSE ContainerRenderAdvance(children, i, current_pos, path, r,
             Layout(r.widget, LayoutConstraintDefault, Append(path, i)))

ContainerRenderFrom(children, i, renderer, current_pos, path) ==
    IF i > Len(children)
    THEN [children |-> children, ret |-> Ok, renderer |-> renderer, trace |-> <<>>]
    ELSE ContainerRenderChild(children, i, current_pos, path,
             Render(children[i], renderer, current_pos, Append(path, i)))

ContainerRender(self, renderer, position, path) ==
    LET r == ContainerRenderFrom(self.children, 1, renderer, position, path)
    IN  [widget |-> [self EXCEPT !.children = r.children], ret |-> r.ret,
         renderer |-> r.renderer, trace |-> r.trace]

HandleEvent(w, event, path) ==
    LET r == CASE w.kind = "TextWidget" -> TextWidgetHandleEvent(w, event)
               [] w.kind \in {"Heading", "Subheading", "Paragraph"} ->
                      BaseHandleEvent(w, event)
               [] w.kind = "Container" -> ContainerHandleEvent(w, event, path)
               [] w.kind = "Button" -> ButtonHandleEvent(w, event, path)
               [] w.kind = "Custom" -> CustomHandleEvent(w, event)
    IN  [widget |-> r.widget, ret |-> r.ret,
         trace |-> <<Call("handle_event", path, w.kind, event, r.ret)>> \o r.trace]

Update(w, ctx, path) ==
    LET r == CASE w.kind = "TextWidget" -> TextWidgetUpdate(w, ctx)
               [] w.kind \in {"Heading", "Subheading", "Paragraph"} -> BaseUpdate(w, ctx)
               [] w.kind = "Container" -> ContainerUpdate(w, ctx, path)
               [] w.kind = "Button" -> ButtonUpdate(w, ctx)
               [] w.kind = "Custom" -> CustomUpdate(w, ctx)
    IN  [widget |-> r.widget, ret |-> r.ret,
         trace |-> <<Call("update", path, w.kind, ctx, r.ret)>> \o r.trace]

Layout(w, constraints, path) ==
    LET r == CASE w.kind = "TextWidget" -> TextWidgetLayout(w, constraints)
               [] w.kind \in {"Heading", "Subheading", "Paragraph"} ->
                      BaseLayout(w, constraints)
               [] w.kind = "Container" -> ContainerLayout(w, constraints, path)
               [] w.kind = "Button" -> ButtonLayout(w, constraints)
               [] w.kind = "Custom" -> CustomLayout(w, constraints)
    IN  [widget |-> r.widget, ret |-> r.ret,
         trace |-> <<Call("layout", path, w.kind, constraints, r.ret)>> \o r.trace]

\* Render is modelled for the widgets whose render is in the source.
Render(w, renderer, position, path) ==
    LET r == CASE w.kind = "TextWidget" -> TextWidgetRender(w, renderer, position)
               [] w.kind \in {"Heading", "Subheading", "Paragraph"} ->
                      BaseRender(w, renderer, position)
               [] w.kind = "Container" -> ContainerRender(w, renderer, position, path)
    IN  [widget |-> r.widget, ret |-> r.ret, renderer |-> r.renderer,
         trace |-> <<Call("render", path, w.kind, position, r.ret)>> \o r.trace]

RECURSIVE Renderable(_)
Renderable(w) ==
    \/ w.kind \in {"TextWidget", "Heading", "Subheading", "Paragraph"}
    \/ /\ w.kind = "Container"
       /\ \A i \in 1 .. Len(w.children) : Renderable(w.children[i])

-----------------------------------------------------------------------------
(* The caller of the library: it builds a tree with Container::new and     *)
(* add_child, constructs headings, and calls the four methods on the root. *)

\* The widgets the caller adds: a styled text, a heading, a button with a
\* callback, a widget of the caller's that consumes every event, and two nested
\* containers: one of text widgets around an empty container, one of widgets
\* that handle events.
Children ==
    { with_color(with_alignment(with_font_size(TextWidgetNew("c"), 200), "Center"), Red),
      HeadingNew("h", 1).value,
      ButtonNew("b", TRUE),
      CustomNew(TRUE, TRUE, Size(500, 100)),
      add_child(add_child(add_child(ContainerNew, SubheadingNew("s")), ContainerNew),
                ParagraphNew("p")),
      add_child(add_child(add_child(ContainerNew, CustomNew(FALSE, TRUE, Size(300, 200))),
                          ButtonNew("n", FALSE)),
                CustomNew(TRUE, FALSE, Size(700, 100))) }

\* The positions the caller renders at.
Positions == { Point(200, 200), Point(0, 55) }

\* The draw_text calls a render of w issues when none fails.
RECURSIVE DrawCountFrom(_, _), DrawCount(_)
DrawCountFrom(children, i) ==
    IF i > Len(children)
    THEN 0
    ELSE DrawCount(children[i]) + DrawCountFrom(children, i + 1)

DrawCount(w) == IF w.kind = "Container" THEN DrawCountFrom(w.children, 1) ELSE 1

\* The record of a call: the method, its argument, what it returned, the calls
\* it made, the renderer calls it issued, and the tree before it.
Record(op, arg, ret, trace, log) ==
    [op |-> op, arg |-> arg, ret |-> ret, trace |-> trace, log |-> log, before |-> root]

NoArg == [none |-> TRUE]

Init ==
    /\ root = ContainerNew
    /\ last = [op |-> "Container::new", arg |-> NoArg, ret |-> ContainerNew,
               trace |-> <<>>, log |-> <<>>, before |-> ContainerNew]
    /\ status = "running"
    /\ rlog = <<>>
    /\ now = 0
    /\ last_frame = 0

AddChild(child) ==
    /\ status = "running"
    /\ Len(root.children) < MaxChildren
    /\ root' = add_child(root, child)
    /\ last' = Record("add_child", child, root', <<>>, <<>>)
    /\ UNCHANGED <<status, rlog, now, last_frame>>

NewHeading(level) ==
    LET r == HeadingNew("h", level)
    IN  /\ status = "running"
        /\ last' = Record("Heading::new", [level |-> level], r.value, <<>>, <<>>)
        /\ status' = IF r.panicked THEN "panicked" ELSE status
        /\ UNCHANGED <<root, rlog, now, last_frame>>

CallHandleEvent(event) ==
    LET r == HandleEvent(root, event, <<>>)
    IN  /\ status = "running"
        /\ root' = r.widget
        /\ last' = Record("handle_event", event, r.ret, r.trace, <<>>)
        /\ UNCHANGED <<status, rlog, now, last_frame>>

CallUpdate ==
    LET r == Update(root, UpdateContext, <<>>)
    IN  /\ status = "running"
        /\ root' = r.widget
        /\ last' = Record("update", UpdateContext, r.ret, r.trace, <<>>)
        /\ UNCHANGED <<status, rlog, now, last_frame>>

CallLayout(constraints) ==
    LET r == Layout(root, constraints, <<>>)
    IN  /\ status = "running"
        /\ root' = r.widget
        /\ last' = Record("layout", constraints, r.ret, r.trace, <<>>)
        /\ UNCHANGED <<status, rlog, now, last_frame>>

CallRender(position, fault) ==
    /\ status = "running"
    /\ Renderable(root)
    /\ LET r == Render(root, NewRenderer(fault), position, <<>>)
       IN  /\ root' = r.widget
           /\ last' = Record("render", [position |-> position, fault |-> fault], r.ret,
                             r.trace, r.renderer.log)
    /\ UNCHANGED <<status, rlog, now, last_frame>>

Next ==
    \/ \E child \in Children : AddChild(child)
    \/ \E event \in Events : CallHandleEvent(event)
    \/ CallUpdate
    \/ \E constraints \in Constraints : CallLayout(constraints)
    \/ \E position \in Positions :
          \E fault \in {NoFault} \cup {DrawFault(n) : n \in 1 .. DrawCount(root)} :
              CallRender(position, fault)

Spec == Init /\ [][Next]_vars

\* The caller that only constructs headings, of every 8-bit level.
HeadingNext == \E level \in Levels : NewHeading(level)

HeadingSpec == Init /\ [][HeadingNext]_vars

-----------------------------------------------------------------------------
(* Main application: run_app's event loop.  status is control_flow (Poll   *)
(* before the first event, then Wait or Exit) or "panicked" once an unwrap *)
(* has failed.  The clock moves in steps of TickMs.                        *)

TickMs == 8

FrameMs == 16

AppRoot ==
    add_child(add_child(add_child(ContainerNew,
                                  HeadingNew("Welcome to Wixe", 1).value),
                        SubheadingNew("A modern GUI framework")),
              ParagraphNew("This is a paragraph of text rendered by Wixe."))

AppPosition == Point(200, 200)

\* The body of the frame: begin_frame, the root render, end_frame, each unwrapped.
FrameEnd(r, e) ==
    [widget |-> r.widget, renderer |-> e.renderer, panicked |-> ~e.ret.ok]

FrameRendered(r) ==
    IF ~r.ret.ok
    THEN [widget |-> r.widget, renderer |-> r.renderer, panicked |-> TRUE]
    ELSE FrameEnd(r, end_frame(r.renderer))

\* Mutant: a frame that renders whether begin_frame succeeded or not.
FrameBegunUnchecked(w, b) == FrameRendered(Render(w, b.renderer, AppPosition, <<>>))

FrameBegun(w, b) ==
    IF ~b.ret.ok
    THEN [widget |-> w, renderer |-> b.renderer, panicked |-> TRUE]
    ELSE FrameRendered(Render(w, b.renderer, AppPosition, <<>>))

Frame(w, renderer) == FrameBegun(w, begin_frame(renderer))

Faults == {NoFault, BeginFault, EndFault} \cup {DrawFault(n) : n \in 1 .. DrawCount(AppRoot)}

AppInit ==
    /\ root = AppRoot
    /\ last = [op |-> "Container::new", arg |-> NoArg, ret |-> ContainerNew,
               trace |-> <<>>, log |-> <<>>, before |-> ContainerNew]
    /\ status = "Poll"
    /\ rlog = <<>>
    /\ now = 0
    /\ last_frame = 0

Looping == status \in {"Poll", "Wait"}

\* Time passes between two events.
Tick ==
    /\ Looping
    /\ now + TickMs <= MaxTime
    /\ now' = now + TickMs
    /\ UNCHANGED <<root, last, status, rlog, last_frame>>

CloseRequested ==
    /\ Looping
    /\ status' = "Exit"
    /\ UNCHANGED <<root, last, rlog, now, last_frame>>

\* Any other window event, and any event that is neither.
OtherEvent ==
    /\ Looping
    /\ status' = "Wait"
    /\ UNCHANGED <<root, last, rlog, now, last_frame>>

MainEventsCleared(fault) ==
    /\ Looping
    /\ IF now - last_frame >= FrameMs
       THEN LET f == Frame(root, [log |-> rlog, draws |-> 0, fault |-> fault])
            IN  /\ root' = f.widget
                /\ rlog' = f.renderer.log
                /\ status' = IF f.panicked THEN "panicked" ELSE "Wait"
                /\ last_frame' = IF f.panicked THEN last_frame ELSE now
       ELSE /\ status' = "Wait"
            /\ UNCHANGED <<root, rlog, last_frame>>
    /\ UNCHANGED <<last, now>>

AppNext ==
    \/ Tick
    \/ CloseRequested
    \/ OtherEvent
    \/ \E fault \in Faults : MainEventsCleared(fault)

AppSpec == AppInit /\ [][AppNext]_vars

-----------------------------------------------------------------------------
(* What the properties below are stated with. *)

\* The node of tree w at path p.
RECURSIVE NodeAt(_, _)
NodeAt(w, p) == IF p = <<>> THEN w ELSE NodeAt(w.children[Head(p)], Tail(p))

IsPrefix(p, q) == Len(p) <= Len(q) /\ SubSeq(q, 1, Len(p)) = p

\* The trace is in call order, a call before the calls it makes: the calls made
\* within call c are the run of calls after it on nodes below c's node.
Below(trace, c, i) ==
    Len(trace[i].path) > Len(trace[c].path) /\ IsPrefix(trace[c].path, trace[i].path)

SpanEnd(trace, c) ==
    CHOOSE m \in c .. Len(trace) :
        /\ \A i \in c + 1 .. m : Below(trace, c, i)
        /\ m = Len(trace) \/ ~Below(trace, c, m + 1)

\* The calls that call c of `trace` makes on the children of its node, in order
\* (a button's callback is a call the button makes, not one made on it).
ChildCalls(trace, c) ==
    SelectSeq(SubSeq(trace, c + 1, SpanEnd(trace, c)),
              LAMBDA e : Len(e.path) = Len(trace[c].path) + 1 /\ e.op # "callback")

\* The calls of method op that `trace` makes on containers.
ContainerCalls(trace, op) ==
    { i \in 1 .. Len(trace) : trace[i].op = op /\ trace[i].kind = "Container" }

\* Call j of `calls` is method op on child j of the node at p, for every j.
InInsertionOrder(calls, p, op) ==
    \A j \in 1 .. Len(calls) : calls[j].op = op /\ calls[j].path = Append(p, j)

RECURSIVE SumHeights(_, _)
SumHeights(calls, n) ==
    IF n = 0 THEN 0 ELSE SumHeights(calls, n - 1) + calls[n].ret.height

MaxWidth(calls) ==
    IF Len(calls) = 0
    THEN 0
    ELSE CHOOSE m \in { calls[j].ret.width : j \in 1 .. Len(calls) } :
             \A j \in 1 .. Len(calls) : calls[j].ret.width <= m

TextKinds == {"TextWidget", "Heading", "Subheading", "Paragraph"}

-----------------------------------------------------------------------------
(* C1: Container.handle_event offers the event to its children in          *)
(* insertion order and stops at the first child that returns true: the     *)
(* children before it have received the event exactly once and returned    *)
(* false, no child after it receives the event, and the container returns  *)
(* true; if no child returns true, every child has received the event      *)
(* exactly once and the container returns false.                           *)
HandleEventShortCircuits ==
    last.op = "handle_event" =>
        \A c \in ContainerCalls(last.trace, "handle_event") :
            LET call == last.trace[c]
                n == Len(NodeAt(last.before, call.path).children)
                calls == ChildCalls(last.trace, c)
                k == Len(calls)
            IN  /\ InInsertionOrder(calls, call.path, "handle_event")
                /\ \A j \in 1 .. k : calls[j].arg = call.arg
                /\ \A j \in 1 .. k - 1 : calls[j].ret = FALSE
                /\ IF call.ret
                   THEN k >= 1 /\ k <= n /\ calls[k].ret = TRUE
                   ELSE k = n /\ \A j \in 1 .. k : calls[j].ret = FALSE

\* A container of three children whose second child consumed the event: the
\* first two were called, the third was not.
HandleEventShortCircuitsWitness ==
    /\ last.op = "handle_event"
    /\ \E c \in ContainerCalls(last.trace, "handle_event") :
           LET call == last.trace[c]
               calls == ChildCalls(last.trace, c)
           IN  /\ Len(NodeAt(last.before, call.path).children) = 3
               /\ Len(calls) = 2
               /\ calls[1].ret = FALSE
               /\ calls[2].ret = TRUE
               /\ call.ret = TRUE

(* C2: Container.update calls update on every child exactly once per call, *)
(* in insertion order, whatever the earlier children returned, and returns *)
(* the logical OR of the children's results.                               *)
UpdateVisitsEveryChild ==
    last.op = "update" =>
        \A c \in ContainerCalls(last.trace, "update") :
            LET call == last.trace[c]
                n == Len(NodeAt(last.before, call.path).children)
                calls == ChildCalls(last.trace, c)
            IN  /\ Len(calls) = n
                /\ InInsertionOrder(calls, call.path, "update")
                /\ call.ret = (\E j \in 1 .. n : calls[j].ret)

\* A container whose first child returned true and whose later children were
\* updated all the same, one of them returning false.
UpdateVisitsEveryChildWitness ==
    /\ last.op = "update"
    /\ \E c \in ContainerCalls(last.trace, "update") :
           LET call == last.trace[c]
               calls == ChildCalls(last.trace, c)
           IN  /\ Len(calls) = 3
               /\ calls[1].ret = TRUE
               /\ calls[3].ret = FALSE
               /\ call.ret = TRUE

(* C3: Container.layout passes the constraints it received to every child  *)
(* and returns height = the sum of the children's heights and width = the  *)
(* maximum of the children's widths, nested containers included; an empty  *)
(* container returns width 0 and height 0.                                 *)
LayoutSumsHeights ==
    last.op = "layout" =>
        \A c \in ContainerCalls(last.trace, "layout") :
            LET call == last.trace[c]
                n == Len(NodeAt(last.before, call.path).children)
                calls == ChildCalls(last.trace, c)
            IN  /\ Len(calls) = n
                /\ InInsertionOrder(calls, call.path, "layout")
                /\ \A j \in 1 .. n : calls[j].arg = call.arg
                /\ call.ret = Size(MaxWidth(calls), SumHeights(calls, n))
                /\ n = 0 => call.ret = Size(0, 0)

\* A layout with a window's constraints of a root of three children, one of
\* them a container that holds an empty container, where the widest child is
\* not the last one.
LayoutSumsHeightsWitness ==
    /\ last.op = "layout"
    /\ last.arg # LayoutConstraintDefault
    /\ Len(last.before.children) = 3
    /\ last.ret.width > last.trace[Len(last.trace)].ret.width
    /\ \E c \in ContainerCalls(last.trace, "layout") :
           /\ last.trace[c].path # <<>>
           /\ Len(ChildCalls(last.trace, c)) = 0
           /\ last.trace[c].ret = Size(0, 0)

(* C4: when a draw call fails while Container.render renders child i, the  *)
(* traversal stops there: no child after i is rendered or laid out (the    *)
(* failed render is the last call of the traversal), render returns that   *)
(* same error through every enclosing container, and the draw calls issued *)
(* before it stay issued.                                                  *)
RenderErrorAborts ==
    (last.op = "render" /\ last.arg.fault.call = "draw_text") =>
        LET t == last.trace
            failed == t[Len(t)]
            unfailing == Render(last.before, NewRenderer(NoFault), last.arg.position, <<>>)
            n == last.arg.fault.n
        IN  /\ failed.op = "render" /\ failed.kind \in TextKinds
            /\ failed.ret = Err(last.arg.fault.err)
            /\ \A i \in 1 .. Len(t) :
                   IF t[i].op = "render" /\ IsPrefix(t[i].path, failed.path)
                   THEN t[i].ret = Err(last.arg.fault.err)
                   ELSE t[i].op = "layout" \/ t[i].ret = Ok
            /\ last.ret = Err(last.arg.fault.err)
            /\ Len(last.log) = n
            /\ last.log[n].ok = FALSE
            /\ \A k \in 1 .. n - 1 : last.log[k] = unfailing.renderer.log[k]

\* The second of at least four draw calls fails, inside a nested container with
\* a sibling after it.
RenderErrorAbortsWitness ==
    /\ last.op = "render"
    /\ last.arg.fault = DrawFault(2)
    /\ DrawCount(last.before) >= 4
    /\ Len(last.trace[Len(last.trace)].path) = 2
    /\ Len(last.before.children) = 3
    /\ last.before.children[1].kind = "Container"
    /\ last.log[1].ok
    /\ ~last.ret.ok

(* C10: Container.render, when no draw call fails, renders the children in *)
(* insertion order, child 1 at the position passed to the container and    *)
(* each next child at the same x and at y = position.y + the sum of the    *)
(* layout heights of the children before it, each height obtained by       *)
(* calling that child's layout with default constraints after rendering    *)
(* it; so the leaves' draw_text calls appear in depth-first insertion      *)
(* order, at the same x and at strictly increasing y, each below the       *)
(* leaves drawn before it.                                                 *)
BaseOf(w) == IF w.kind = "TextWidget" THEN w ELSE w.base

RECURSIVE LeavesFrom(_, _), Leaves(_)
LeavesFrom(children, i) ==
    IF i > Len(children)
    THEN <<>>
    ELSE Leaves(children[i]) \o LeavesFrom(children, i + 1)

Leaves(w) == IF w.kind = "Container" THEN LeavesFrom(w.children, 1) ELSE <<BaseOf(w)>>

RECURSIVE LeafHeights(_, _)
LeafHeights(leaves, n) ==
    IF n = 0 THEN 0 ELSE LeafHeights(leaves, n - 1) + (leaves[n].font_size * 12) \div 10

RenderStacksChildren ==
    (last.op = "render" /\ last.ret = Ok) =>
        /\ \A c \in ContainerCalls(last.trace, "render") :
               LET call == last.trace[c]
                   n == Len(NodeAt(last.before, call.path).children)
                   calls == ChildCalls(last.trace, c)
                   layouts == [j \in 1 .. n |-> calls[2 * j]]
               IN  /\ Len(calls) = 2 * n
                   /\ \A j \in 1 .. n :
                          /\ calls[2 * j - 1].op = "render"
                          /\ calls[2 * j - 1].path = Append(call.path, j)
                          /\ calls[2 * j].op = "layout"
                          /\ calls[2 * j].path = Append(call.path, j)
                          /\ calls[2 * j].arg = LayoutConstraintDefault
                          /\ calls[2 * j - 1].arg =
                                 Point(call.arg.x, call.arg.y + SumHeights(layouts, j - 1))
        /\ LET leaves == Leaves(last.before)
           IN  /\ Len(last.log) = Len(leaves)
               /\ \A k \in 1 .. Len(leaves) :
                      last.log[k] =
                          [call |-> "draw_text", text |-> leaves[k].text,
                           position |-> Point(last.arg.position.x,
                                              last.arg.position.y
                                                  + LeafHeights(leaves, k - 1)),
                           font_size |-> leaves[k].font_size, color |-> leaves[k].color,
                           alignment |-> leaves[k].alignment, ok |-> TRUE]
               /\ \A k \in 1 .. Len(leaves) - 1 :
                      last.log[k + 1].position.y > last.log[k].position.y

\* A render with no failure of a root of three children whose second child is
\* the container of text widgets around an empty container.
RenderStacksChildrenWitness ==
    /\ last.op = "render"
    /\ last.ret = Ok
    /\ Len(last.before.children) = 3
    /\ last.before.children[2].kind = "Container"
    /\ Len(last.log) = 4
    /\ last.log[4].position.y > last.log[3].position.y
    /\ last.log[3].position.y > last.arg.position.y

(* C5: in every frame run_app calls the renderer in the order begin_frame, *)
(* the root render traversal, end_frame: every draw_text follows a         *)
(* begin_frame that succeeded with no end_frame in between, end_frame      *)
(* follows a root render that succeeded (all its draw calls, after a       *)
(* begin_frame), a begin_frame follows nothing or the end_frame of the     *)
(* frame before, and a call that failed is the last call made.             *)
FrameCallsInOrder ==
    \A i \in 1 .. Len(rlog) :
        LET e == rlog[i]
            d == DrawCount(root)
        IN  /\ CASE e.call = "begin_frame" ->
                       i = 1 \/ (rlog[i - 1].call = "end_frame" /\ rlog[i - 1].ok)
                 [] e.call = "draw_text" ->
                       /\ i > 1
                       /\ rlog[i - 1].call \in {"begin_frame", "draw_text"}
                       /\ rlog[i - 1].ok
                 [] e.call = "end_frame" ->
                       /\ i > d + 1
                       /\ \A k \in 1 .. d :
                              rlog[i - k].call = "draw_text" /\ rlog[i - k].ok
                       /\ rlog[i - d - 1].call = "begin_frame" /\ rlog[i - d - 1].ok
            /\ ~e.ok => (i = Len(rlog) /\ status = "panicked")

\* Two whole frames, then a frame whose second draw call failed.
FrameCallsInOrderWitness ==
    /\ status = "panicked"
    /\ Len(rlog) = 2 * (DrawCount(root) + 2) + 3
    /\ rlog[Len(rlog)].call = "draw_text"
    /\ rlog[5].call = "end_frame"
    /\ rlog[6].call = "begin_frame"

(* C6: TextWidget, Heading, Subheading and Paragraph return false from     *)
(* handle_event and from update, for every event and every state of the    *)
(* widget, and neither call changes the widget; so a tree of containers    *)
(* and these widgets only returns false from both and is left unchanged.   *)
RECURSIVE PresentationOnly(_)
PresentationOnly(w) ==
    \/ w.kind \in TextKinds
    \/ /\ w.kind = "Container"
       /\ \A i \in 1 .. Len(w.children) : PresentationOnly(w.children[i])

PresentationWidgetsIgnoreEvents ==
    last.op \in {"handle_event", "update"} =>
        /\ \A i \in 1 .. Len(last.trace) :
               last.trace[i].kind \in TextKinds =>
                   /\ last.trace[i].ret = FALSE
                   /\ NodeAt(root, last.trace[i].path)
                          = NodeAt(last.before, last.trace[i].path)
        /\ PresentationOnly(last.before) => (last.ret = FALSE /\ root = last.before)

\* A click delivered to a tree of the four kinds: a text, a heading, and a
\* container of a subheading and a paragraph; every one of them received it.
PresentationWidgetsIgnoreEventsWitness ==
    /\ last.op = "handle_event"
    /\ last.arg.kind = "Click"
    /\ PresentationOnly(last.before)
    /\ { last.trace[i].kind : i \in 1 .. Len(last.trace) } = TextKinds \cup {"Container"}
    /\ last.ret = FALSE

(* C7: Heading::new with a level in 1..6 produces a heading whose font     *)
(* size is 36, 30, 24, 18, 16, 14 for the levels 1..6; with any other      *)
(* 8-bit level (0, 7..255) it panics and produces no Heading.              *)
HeadingLevels ==
    last.op = "Heading::new" =>
        LET level == last.arg.level
        IN  IF level \in 1 .. 6
            THEN /\ status = "running"
                 /\ last.ret.kind = "Heading"
                 /\ last.ret.level = level
                 /\ last.ret.base.font_size = <<360, 300, 240, 180, 160, 140>>[level]
            ELSE /\ status = "panicked"
                 /\ last.ret = NoWidget

\* Level 7, the first level above the range, was refused.
HeadingLevelsWitness ==
    /\ last.op = "Heading::new"
    /\ last.arg.level = 7
    /\ status = "panicked"
    /\ last.ret = NoWidget

(* C8: Button.handle_event: a Click on a button with a callback runs the   *)
(* callback exactly once, before returning, and returns true; a Click with *)
(* no callback returns true and runs nothing; a Hover sets hovered and     *)
(* returns true; KeyPress, FocusChange and MouseWheel return false.        *)
CallbacksOf(trace, i) ==
    { j \in 1 .. Len(trace) : trace[j].op = "callback" /\ trace[j].path = trace[i].path }

ButtonHandlesClickAndHover ==
    last.op = "handle_event" =>
        \A i \in 1 .. Len(last.trace) :
            (last.trace[i].op = "handle_event" /\ last.trace[i].kind = "Button") =>
                LET call == last.trace[i]
                    button == NodeAt(last.before, call.path)
                    after == NodeAt(root, call.path)
                    ran == CallbacksOf(last.trace, i)
                IN  CASE call.arg.kind = "Click" ->
                            /\ call.ret = TRUE
                            /\ ran = IF button.on_click THEN {i + 1} ELSE {}
                      [] call.arg.kind = "Hover" ->
                            /\ call.ret = TRUE
                            /\ after.hovered
                            /\ ran = {}
                      [] OTHER ->
                            /\ call.ret = FALSE
                            /\ ran = {}

\* A click reached a button with a callback, which ran.
ButtonHandlesClickAndHoverWitness ==
    /\ last.op = "handle_event"
    /\ last.arg.kind = "Click"
    /\ \E i \in 1 .. Len(last.trace) :
           /\ last.trace[i].kind = "Button"
           /\ last.trace[i].op = "handle_event"
           /\ NodeAt(last.before, last.trace[i].path).on_click
           /\ CallbacksOf(last.trace, i) = {i + 1}

(* C9: layout is pure and idempotent on every widget kind: the call leaves *)
(* the tree unchanged, makes only layout calls (no event is dispatched, no *)
(* callback runs), issues no renderer call, and a second call with the     *)
(* same constraints returns the same Size.                                 *)
LayoutIsPure ==
    last.op = "layout" =>
        /\ root = last.before
        /\ \A i \in 1 .. Len(last.trace) : last.trace[i].op = "layout"
        /\ last.log = <<>>
        /\ Layout(root, last.arg, <<>>).ret = last.ret
        /\ Layout(root, last.arg, <<>>).widget = root

\* A layout with a window's constraints of a tree that holds every kind of
\* widget.
LayoutIsPureWitness ==
    /\ last.op = "layout"
    /\ last.arg # LayoutConstraintDefault
    /\ { last.trace[i].kind : i \in 1 .. Len(last.trace) }
           = {"Container", "Heading", "Subheading", "Paragraph", "Button", "Custom"}
    /\ root = last.before

=============================================================================
